---- MODULE Spec2Model ----
(***************************************************************************)
(* A model of the LR35902 emulator core: the bit/byte utilities            *)
(* (utils/mod.rs), the register file (hardware/cpu.rs), the memory map     *)
(* (hardware/memory.rs), the instruction decoder                           *)
(* (interpreter/disassembler.rs) and the executor (interpreter/mod.rs).    *)
(*                                                                         *)
(* Bytes are naturals below 2^8 and words naturals below 2^16; Rust's      *)
(* shifts, casts and wrapping arithmetic are spelled out with their width. *)
(* A Rust panic (a failed assert!, panic!, todo!) is an outcome of its     *)
(* own, "panic", next to Ok and Err.                                       *)
(***************************************************************************)
EXTENDS Integers, Sequences, FiniteSets, TLC

(***************************************************************************)
(* Fixed-width integer primitives of the source language.                  *)
(***************************************************************************)
AsU8(x) == x % 256
AsU16(x) == x % 65536
Shl8(x, n) == (x * (2 ^ n)) % 256
Shl16(x, n) == (x * (2 ^ n)) % 65536
Shr(x, n) == x \div (2 ^ n)
Not8(x) == 255 - x
Not16(x) == 65535 - x

RECURSIVE BitAnd(_, _)
BitAnd(a, b) ==
    IF a = 0 \/ b = 0 THEN 0
    ELSE (IF a % 2 = 1 /\ b % 2 = 1 THEN 1 ELSE 0) + 2 * BitAnd(a \div 2, b \div 2)

RECURSIVE BitOr(_, _)
BitOr(a, b) ==
    IF a = 0 THEN b
    ELSE IF b = 0 THEN a
    ELSE (IF a % 2 = 1 \/ b % 2 = 1 THEN 1 ELSE 0) + 2 * BitOr(a \div 2, b \div 2)

RECURSIVE BitXor(_, _)
BitXor(a, b) ==
    IF a = 0 THEN b
    ELSE IF b = 0 THEN a
    ELSE (IF a % 2 # b % 2 THEN 1 ELSE 0) + 2 * BitXor(a \div 2, b \div 2)

WrappingAdd8(a, b) == (a + b) % 256
WrappingSub8(a, b) == (a - b + 256) % 256
WrappingAdd16(a, b) == (a + b) % 65536
WrappingSub16(a, b) == (a - b + 65536) % 65536

(***************************************************************************)
(* utils/mod.rs                                                            *)
(***************************************************************************)
bytes_to_word_big_endian(fst, snd) == Shl16(fst, 8) + snd

\* returns the pair (((word << 8) >> 8) as u8, (word >> 8) as u8)
word_to_bytes_big_endian(word) ==
    << AsU8(Shr(Shl16(word, 8), 8)), AsU8(Shr(word, 8)) >>

bytes_to_word_little_endian(fst, snd) == bytes_to_word_big_endian(snd, fst)

word_to_bytes_little_endian(word) ==
    LET p == word_to_bytes_big_endian(word) IN << p[2], p[1] >>

endianess_conversion(word) == BitOr(Shr(word, 8), Shl16(word, 8))

get_word_left_byte(word) == word_to_bytes_big_endian(word)[1]

get_word_right_byte(word) == word_to_bytes_big_endian(word)[1]

set_word_left_byte(word, byte) ==
    bytes_to_word_big_endian(byte, word_to_bytes_big_endian(word)[2])

set_word_right_byte(word, byte) ==
    bytes_to_word_big_endian(word_to_bytes_big_endian(word)[1], byte)

\* (byte << from) >> (from + (8 - to)), on u8
get_bits_of_byte(byte, from, to) == Shr(Shl8(byte, from), from + (8 - to))

get_bit_of_byte(byte, i) == get_bits_of_byte(byte, i, i + 1) = 1

set_bit_of_byte(byte, i, bit) ==
    IF bit THEN BitOr(byte, Shl8(1, i)) ELSE BitAnd(byte, Not8(Shl8(1, i)))

overflow_occured_word(op1, op2, result, position) ==
    BitAnd(BitXor(BitXor(op1, op2), result), Shl16(1, position)) # 0

overflow_occured_byte(op1, op2, result, position) ==
    BitAnd(BitXor(BitXor(op1, op2), result), Shl8(1, position)) # 0

borrow_occurred_word(op1, op2, position) ==
    BitAnd(BitAnd(Not16(op1), op2), Shl16(1, position)) # 0

borrow_occurred_byte(op1, op2, position) ==
    BitAnd(BitAnd(Not8(op1), op2), Shl8(1, position)) # 0

(***************************************************************************)
(* hardware/cpu.rs: the register file                                      *)
(***************************************************************************)
ByteRegisters == {"A", "B", "C", "D", "E", "H", "L"}
WordRegisters == {"AF", "BC", "DE", "HL", "SP", "PC"}
BitRegisters == {"FlagZ", "FlagN", "FlagH", "FlagC"}

\* Option<u8>
NoneU8 == [some |-> FALSE, v |-> 0]
SomeU8(n) == [some |-> TRUE, v |-> n]

CPU_new ==
    [af |-> 0, bc |-> 0, de |-> 0, hl |-> 0, sp |-> 0, pc |-> 256,
     ime |-> FALSE, ime_delay |-> NoneU8]

enable_interupts(c) == [c EXCEPT !.ime_delay = SomeU8(2)]

\* a mutant of disable_interupts: the pending counter is left as it was
disable_interupts_keeps_pending(c) == [c EXCEPT !.ime = FALSE]

disable_interupts(c) == [c EXCEPT !.ime = FALSE, !.ime_delay = NoneU8]

refresh_interupt_flag(c) ==
    IF ~c.ime_delay.some THEN c
    ELSE IF c.ime_delay.v = 0 THEN [c EXCEPT !.ime = TRUE, !.ime_delay = NoneU8]
    ELSE [c EXCEPT !.ime_delay = SomeU8(c.ime_delay.v - 1)]

\* The accessors panic on a register of another kind; a caller that can hand
\* one in tests these first.
read_word_panics(register) == register \notin WordRegisters
read_byte_panics(register) == register \notin ByteRegisters
read_bit_panics(register) == register \notin BitRegisters
write_bit_panics(register) == register \notin BitRegisters

read_word(c, register) ==
    CASE register = "AF" -> c.af
      [] register = "BC" -> c.bc
      [] register = "DE" -> c.de
      [] register = "HL" -> c.hl
      [] register = "SP" -> c.sp
      [] register = "PC" -> c.pc

write_word(c, register, word) ==
    CASE register = "AF" -> [c EXCEPT !.af = word]
      [] register = "BC" -> [c EXCEPT !.bc = word]
      [] register = "DE" -> [c EXCEPT !.de = word]
      [] register = "HL" -> [c EXCEPT !.hl = word]
      [] register = "SP" -> [c EXCEPT !.sp = word]
      [] register = "PC" -> [c EXCEPT !.pc = word]

read_byte(c, register) ==
    CASE register = "A" -> get_word_left_byte(c.af)
      [] register = "B" -> get_word_left_byte(c.bc)
      [] register = "C" -> get_word_right_byte(c.bc)
      [] register = "D" -> get_word_left_byte(c.de)
      [] register = "E" -> get_word_right_byte(c.de)
      [] register = "H" -> get_word_left_byte(c.hl)
      [] register = "L" -> get_word_right_byte(c.hl)

write_byte(c, register, byte) ==
    CASE register = "A" -> [c EXCEPT !.af = set_word_left_byte(c.af, byte)]
      [] register = "B" -> [c EXCEPT !.bc = set_word_left_byte(c.bc, byte)]
      [] register = "C" -> [c EXCEPT !.bc = set_word_right_byte(c.bc, byte)]
      [] register = "D" -> [c EXCEPT !.de = set_word_left_byte(c.de, byte)]
      [] register = "E" -> [c EXCEPT !.de = set_word_right_byte(c.de, byte)]
      [] register = "H" -> [c EXCEPT !.hl = set_word_left_byte(c.hl, byte)]
      [] register = "L" -> [c EXCEPT !.hl = set_word_right_byte(c.hl, byte)]

read_bit(c, register) ==
    CASE register = "FlagZ" -> get_bit_of_byte(get_word_right_byte(c.af), 0)
      [] register = "FlagN" -> get_bit_of_byte(get_word_right_byte(c.af), 1)
      [] register = "FlagH" -> get_bit_of_byte(get_word_right_byte(c.af), 2)
      [] register = "FlagC" -> get_bit_of_byte(get_word_right_byte(c.af), 3)

write_bit(c, register, bit) ==
    CASE register = "FlagZ" ->
            [c EXCEPT !.af = set_word_right_byte(c.af,
                set_bit_of_byte(get_word_right_byte(c.af), 0, bit))]
      [] register = "FlagN" ->
            [c EXCEPT !.af = set_word_right_byte(c.af,
                set_bit_of_byte(get_word_right_byte(c.af), 1, bit))]
      [] register = "FlagH" ->
            [c EXCEPT !.af = set_word_right_byte(c.af,
                set_bit_of_byte(get_word_right_byte(c.af), 2, bit))]
      [] register = "FlagC" ->
            [c EXCEPT !.af = set_word_right_byte(c.af,
                set_bit_of_byte(get_word_right_byte(c.af), 3, bit))]

add_word(c, register, n) ==
    write_word(c, register, WrappingAdd16(read_word(c, register), n))

sub_word(c, register, n) ==
    write_word(c, register, WrappingSub16(read_word(c, register), n))

add_byte(c, register, n) ==
    write_byte(c, register, WrappingAdd8(read_byte(c, register), n))

sub_byte(c, register, n) ==
    write_byte(c, register, WrappingSub8(read_byte(c, register), n))

(***************************************************************************)
(* hardware/memory.rs: 65,536 bytes, all zero at construction.  The array  *)
(* is held as the function from the addresses of its non-zero cells to     *)
(* their values; every other cell reads 0.                                 *)
(***************************************************************************)
MemSize == 65536

MemoryMap_new == << >>

MemCell(m, address) == IF address \in DOMAIN m THEN m[address] ELSE 0

MemStore(m, address, byte) ==
    IF byte = 0
    THEN [x \in (DOMAIN m) \ {address} |-> m[x]]
    ELSE [x \in (DOMAIN m) \cup {address} |-> IF x = address THEN byte ELSE m[x]]

is_inbound_byte(address) == MemSize > address
is_inbound_word(address) == MemSize > (address + 1)

\* Result<u8, ExecutionError> and Result<u16, ExecutionError>
MemOk(v) == [ok |-> TRUE, v |-> v, addr |-> 0]
MemErr(address) == [ok |-> FALSE, v |-> 0, addr |-> address]

mem_read_byte(m, address) ==
    IF ~is_inbound_byte(address) THEN MemErr(address)
    ELSE MemOk(MemCell(m, address))

mem_read_word(m, address) ==
    IF ~is_inbound_word(address) THEN MemErr(address)
    ELSE MemOk(bytes_to_word_little_endian(MemCell(m, address), MemCell(m, address + 1)))

\* MemoryMap::read_bytes: the first failing read_byte decides the error
mem_read_bytes(m, address, n) ==
    IF \A offset \in 0 .. (n - 1) : is_inbound_byte(address + offset)
    THEN [ok |-> TRUE, v |-> [i \in 1 .. n |-> MemCell(m, address + i - 1)], addr |-> 0]
    ELSE [ok |-> FALSE, v |-> << >>,
          addr |-> IF is_inbound_byte(address) THEN MemSize ELSE address]

\* Result<(), ExecutionError> with the memory after the call
MemWOk(m) == [ok |-> TRUE, mem |-> m, addr |-> 0]
MemWErr(m, address) == [ok |-> FALSE, mem |-> m, addr |-> address]

mem_write_byte(m, address, byte) ==
    IF ~is_inbound_byte(address) THEN MemWErr(m, address)
    ELSE MemWOk(MemStore(m, address, byte))

mem_write_word(m, address, word) ==
    IF ~is_inbound_word(address) THEN MemWErr(m, address)
    ELSE LET p == word_to_bytes_little_endian(word)
         IN  MemWOk(MemStore(MemStore(m, address, p[1]), address + 1, p[2]))

(***************************************************************************)
(* The same four accesses over the whole of usize.  The callers in the     *)
(* interpreter pass addresses widened from u16, the signatures take any    *)
(* usize.  A usize is held as its four 16-bit limbs, most significant      *)
(* first (a 64-bit target).  `address + 1` overflows at usize::MAX: a      *)
(* build with overflow checks panics there, a build without them wraps to  *)
(* 0; indexing the Vec at or past its length panics in every build.        *)
(***************************************************************************)
usize_MAX == [i \in 1 .. 4 |-> 65535]

usize_of(n) == << 0, 0, n \div 65536, n % 65536 >>

\* the value of a usize below 2^31
usize_int(a) == a[3] * 65536 + a[4]

usize_lt(a, b) ==
    \E i \in 1 .. Len(a) : a[i] < b[i] /\ \A j \in 1 .. (i - 1) : a[j] = b[j]

\* address + 1: the wrapped sum and whether it overflowed
usize_add_one(a) ==
    IF a = usize_MAX THEN [overflow |-> TRUE, v |-> [i \in 1 .. Len(a) |-> 0]]
    ELSE LET i == CHOOSE k \in 1 .. Len(a) :
                      a[k] # 65535 /\ \A j \in (k + 1) .. Len(a) : a[j] = 65535
         IN  [overflow |-> FALSE,
              v |-> [j \in 1 .. Len(a) |->
                       IF j < i THEN a[j] ELSE IF j = i THEN a[j] + 1 ELSE 0]]

Builds == {"overflow-checks", "wrapping"}

\* what a call returns, and the memory it leaves
Access(kind, m, address, v) == [kind |-> kind, mem |-> m, addr |-> address, v |-> v]

MemoryMap_is_inbound_byte(address) == usize_lt(address, usize_of(MemSize))

MemoryMap_read_byte(m, address) ==
    IF ~MemoryMap_is_inbound_byte(address)
    THEN Access("MemoryOutOfBounds", m, address, 0)
    ELSE Access("ok", m, address, MemCell(m, usize_int(address)))

MemoryMap_write_byte(m, address, byte) ==
    IF ~MemoryMap_is_inbound_byte(address)
    THEN Access("MemoryOutOfBounds", m, address, 0)
    ELSE Access("ok", MemStore(m, usize_int(address), byte), address, 0)

\* is_inbound_word, then the two indexings of data
MemoryMap_word_access(address, build) ==
    LET next == usize_add_one(address)
    IN  IF next.overflow /\ build = "overflow-checks" THEN "panic"
        ELSE IF ~usize_lt(next.v, usize_of(MemSize)) THEN "MemoryOutOfBounds"
        ELSE IF ~usize_lt(address, usize_of(MemSize)) THEN "panic"
        ELSE "ok"

MemoryMap_read_word(m, address, build) ==
    LET k == MemoryMap_word_access(address, build)
    IN  IF k # "ok" THEN Access(k, m, address, 0)
        ELSE Access("ok", m, address,
                    bytes_to_word_little_endian(MemCell(m, usize_int(address)),
                                                MemCell(m, usize_int(address) + 1)))

MemoryMap_write_word(m, address, word, build) ==
    LET k == MemoryMap_word_access(address, build)
    IN  IF k # "ok" THEN Access(k, m, address, 0)
        ELSE LET p == word_to_bytes_little_endian(word)
             IN  Access("ok",
                        MemStore(MemStore(m, usize_int(address), p[1]),
                                 usize_int(address) + 1, p[2]),
                        address, 0)

(***************************************************************************)
(* interpreter/disassembler.rs: the decoder                                *)
(***************************************************************************)
\* An Instruction value: the variant's name and its payload (register
\* selectors, an immediate); "-" and 0 fill the fields a variant lacks.
Insn(tag, r1, r2, imm) == [tag |-> tag, r1 |-> r1, r2 |-> r2, imm |-> imm]

Size1Tags ==
    {"Unkown", "NOP", "RLCA", "RRCA", "RLA", "RRA", "DAA", "CPL", "SCF", "CCF",
     "STOP", "HALT", "AddAR8", "AdcAR8", "SubAR8", "SbcAR8", "AndAR8", "XorAR8",
     "OrAR8", "CpAR8", "IncR8", "IncR16", "DecR8", "DecR16", "AddHlR16",
     "LdR16memA", "LdAR16mem", "LdR8R8"}
Size2Tags ==
    {"AddAImm8", "AdcAImm8", "SubAImm8", "SbcAImm8", "AndAImm8", "XorAImm8",
     "OrAImm8", "CpAImm8", "LdR8Imm8", "JrImm8", "JrCondImm8"}
Size3Tags == {"LdR16Imm16", "LdAddrImm16Sp"}

get_size(insn) ==
    CASE insn.tag \in Size1Tags -> 1
      [] insn.tag \in Size2Tags -> 2
      [] insn.tag \in Size3Tags -> 3

R8_from(i) ==
    CASE i = 0 -> "B"
      [] i = 1 -> "C"
      [] i = 2 -> "D"
      [] i = 3 -> "E"
      [] i = 4 -> "H"
      [] i = 5 -> "L"
      [] i = 6 -> "AddrHL"
      [] i = 7 -> "A"

R8_into(r8) ==
    CASE r8 = "B" -> "B"
      [] r8 = "C" -> "C"
      [] r8 = "D" -> "D"
      [] r8 = "E" -> "E"
      [] r8 = "H" -> "H"
      [] r8 = "L" -> "L"
      [] r8 = "AddrHL" -> "HL"
      [] r8 = "A" -> "A"

R16_from(i) ==
    CASE i = 0 -> "BC"
      [] i = 1 -> "DE"
      [] i = 2 -> "HL"
      [] i = 3 -> "SP"

R16_into(r16) ==
    CASE r16 = "BC" -> "BC"
      [] r16 = "DE" -> "DE"
      [] r16 = "HL" -> "HL"
      [] r16 = "SP" -> "SP"

R16mem_from(i) ==
    CASE i = 0 -> "BC"
      [] i = 1 -> "DE"
      [] i = 2 -> "IncrHL"
      [] i = 3 -> "DecrHL"

R16mem_into(r16mem) ==
    CASE r16mem = "BC" -> "BC"
      [] r16mem = "DE" -> "DE"
      [] r16mem = "IncrHL" -> "HL"
      [] r16mem = "DecrHL" -> "HL"

Cond_from(i) ==
    CASE i = 0 -> "NotZ"
      [] i = 1 -> "Z"
      [] i = 2 -> "NotC"
      [] i = 3 -> "C"

Cond_into(cond) ==
    CASE cond \in {"NotZ", "Z"} -> "FlagZ"
      [] cond \in {"NotC", "C"} -> "FlagC"

apply_mask(input, mask) == BitOr(input, mask)

apply_mask_equal(input, mask) == apply_mask(input, mask) = mask

\* Result<u8, DisassemblyError>
ByteOk(v) == [ok |-> TRUE, v |-> v, err |-> "none", errop |-> 0]
ByteErr(e, op) == [ok |-> FALSE, v |-> 0, err |-> e, errop |-> op]

get_byte(bytes, index) ==
    IF Len(bytes) = 0 THEN ByteErr("EOF", 0)
    ELSE IF index < Len(bytes) THEN ByteOk(bytes[index + 1])
    ELSE ByteErr("MissingOperand", bytes[1])

\* Result<Instruction, DisassemblyError>; "panic" is the failed
\* assert!(!bytes.is_empty()) of get_instruction
NoInsn == Insn("none", "-", "-", 0)
DecOk(insn) == [ok |-> TRUE, insn |-> insn, err |-> "none", errop |-> 0]
DecErr(e, op) == [ok |-> FALSE, insn |-> NoInsn, err |-> e, errop |-> op]
DecFrom(b) == DecErr(b.err, b.errop)

\* an instruction with one operand byte: get_byte(bytes, 1)?
WithImm8(bytes, tag, r1, r2) ==
    LET b1 == get_byte(bytes, 1)
    IN  IF b1.ok THEN DecOk(Insn(tag, r1, r2, b1.v)) ELSE DecFrom(b1)

\* an instruction with a 16-bit operand:
\* bytes_to_word_little_endian(get_byte(bytes, 1)?, get_byte(bytes, 2)?)
WithImm16(bytes, tag, r1) ==
    LET b1 == get_byte(bytes, 1)
        b2 == get_byte(bytes, 2)
    IN  IF ~b1.ok THEN DecFrom(b1)
        ELSE IF ~b2.ok THEN DecFrom(b2)
        ELSE DecOk(Insn(tag, r1, "-", bytes_to_word_little_endian(b1.v, b2.v)))

block_0(bytes) ==
    LET c0 == get_byte(bytes, 0)
        current == c0.v
        r16sel == get_bits_of_byte(current, 2, 4)
        r8sel == get_bits_of_byte(current, 2, 5)
    IN
    IF ~c0.ok THEN DecFrom(c0)
    ELSE IF current = 0 THEN DecOk(Insn("NOP", "-", "-", 0))
    ELSE IF current = 7 THEN DecOk(Insn("RLCA", "-", "-", 0))
    ELSE IF current = 15 THEN DecOk(Insn("RRCA", "-", "-", 0))
    ELSE IF current = 23 THEN DecOk(Insn("RLA", "-", "-", 0))
    ELSE IF current = 31 THEN DecOk(Insn("RRA", "-", "-", 0))
    ELSE IF current = 39 THEN DecOk(Insn("DAA", "-", "-", 0))
    ELSE IF current = 47 THEN DecOk(Insn("CPL", "-", "-", 0))
    ELSE IF current = 55 THEN DecOk(Insn("SCF", "-", "-", 0))
    ELSE IF current = 63 THEN DecOk(Insn("CCF", "-", "-", 0))
    ELSE IF current = 16 THEN
        (LET b1 == get_byte(bytes, 1)
         IN  IF b1.ok THEN DecOk(Insn("STOP", "-", "-", 0)) ELSE DecFrom(b1))
    ELSE IF apply_mask(current, 48) = 49 THEN
        WithImm16(bytes, "LdR16Imm16", R16_from(r16sel))
    ELSE IF apply_mask(current, 48) = 50 THEN
        DecOk(Insn("LdR16memA", R16mem_from(r16sel), "-", 0))
    ELSE IF apply_mask(current, 48) = 58 THEN
        DecOk(Insn("LdAR16mem", R16mem_from(r16sel), "-", 0))
    ELSE IF current = 8 THEN
        WithImm16(bytes, "LdAddrImm16Sp", "-")
    ELSE IF apply_mask(current, 48) = 51 THEN
        DecOk(Insn("IncR16", R16_from(r16sel), "-", 0))
    ELSE IF apply_mask(current, 48) = 59 THEN
        DecOk(Insn("DecR16", R16_from(r16sel), "-", 0))
    ELSE IF apply_mask(current, 48) = 57 THEN
        DecOk(Insn("AddHlR16", R16_from(r16sel), "-", 0))
    ELSE IF apply_mask(current, 56) = 60 THEN
        DecOk(Insn("IncR8", R8_from(r8sel), "-", 0))
    ELSE IF apply_mask(current, 56) = 61 THEN
        DecOk(Insn("DecR8", R8_from(r8sel), "-", 0))
    ELSE IF apply_mask(current, 56) = 62 THEN
        WithImm8(bytes, "LdR8Imm8", R8_from(r8sel), "-")
    ELSE IF current = 24 THEN
        WithImm8(bytes, "JrImm8", "-", "-")
    ELSE IF apply_mask(current, 24) = 56 THEN
        WithImm8(bytes, "JrCondImm8", Cond_from(get_bits_of_byte(current, 3, 5)), "-")
    ELSE DecOk(Insn("Unkown", "-", "-", current))

block_1(bytes) ==
    LET c0 == get_byte(bytes, 0)
        current == c0.v
        dst == R8_from(get_bits_of_byte(current, 2, 5))
        src == R8_from(get_bits_of_byte(current, 5, 8))
    IN
    IF ~c0.ok THEN DecFrom(c0)
    ELSE IF current = 118 THEN DecOk(Insn("HALT", "-", "-", 0))
    ELSE IF dst = "AddrHL" /\ src = "AddrHL" THEN DecOk(Insn("Unkown", "-", "-", current))
    ELSE DecOk(Insn("LdR8R8", dst, src, 0))

block_2(bytes) ==
    LET c0 == get_byte(bytes, 0)
        current == c0.v
        src == R8_from(get_bits_of_byte(current, 5, 8))
    IN
    IF ~c0.ok THEN DecFrom(c0)
    ELSE IF apply_mask(current, 7) = 135 THEN DecOk(Insn("AddAR8", src, "-", 0))
    ELSE IF apply_mask(current, 7) = 143 THEN DecOk(Insn("AdcAR8", src, "-", 0))
    ELSE IF apply_mask(current, 7) = 151 THEN DecOk(Insn("SubAR8", src, "-", 0))
    ELSE IF apply_mask(current, 7) = 159 THEN DecOk(Insn("SbcAR8", src, "-", 0))
    ELSE IF apply_mask(current, 7) = 167 THEN DecOk(Insn("AndAR8", src, "-", 0))
    ELSE IF apply_mask(current, 7) = 175 THEN DecOk(Insn("XorAR8", src, "-", 0))
    ELSE IF apply_mask(current, 7) = 183 THEN DecOk(Insn("OrAR8", src, "-", 0))
    ELSE IF apply_mask(current, 7) = 191 THEN DecOk(Insn("CpAR8", src, "-", 0))
    ELSE DecOk(Insn("Unkown", "-", "-", current))

block_3(bytes) ==
    LET c0 == get_byte(bytes, 0)
        current == c0.v
    IN
    IF ~c0.ok THEN DecFrom(c0)
    ELSE IF current = 198 THEN WithImm8(bytes, "AddAImm8", "-", "-")
    ELSE IF current = 206 THEN WithImm8(bytes, "AdcAImm8", "-", "-")
    ELSE IF current = 214 THEN WithImm8(bytes, "SubAImm8", "-", "-")
    ELSE IF current = 222 THEN WithImm8(bytes, "SbcAImm8", "-", "-")
    ELSE IF current = 230 THEN WithImm8(bytes, "AndAImm8", "-", "-")
    ELSE IF current = 238 THEN WithImm8(bytes, "XorAImm8", "-", "-")
    ELSE IF current = 246 THEN WithImm8(bytes, "OrAImm8", "-", "-")
    ELSE IF current = 254 THEN WithImm8(bytes, "CpAImm8", "-", "-")
    ELSE DecOk(Insn("Unkown", "-", "-", current))

get_instruction(bytes) ==
    LET c0 == get_byte(bytes, 0)
        current == c0.v
    IN
    IF Len(bytes) = 0 THEN DecErr("panic", 0)
    ELSE IF ~c0.ok THEN DecFrom(c0)
    ELSE IF apply_mask_equal(current, 63) THEN block_0(bytes)
    ELSE IF apply_mask(current, 63) = 127 THEN block_1(bytes)
    ELSE IF apply_mask(current, 63) = 191 THEN block_2(bytes)
    ELSE IF apply_mask(current, 63) = 255 THEN block_3(bytes)
    ELSE DecOk(Insn("Unkown", "-", "-", current))

(***************************************************************************)
(* interpreter/mod.rs: the executor.  Each execute_* operator gives the    *)
(* outcome of the function of that name: the register file and the memory  *)
(* after the call and what the call returned.                              *)
(***************************************************************************)
\* Result<u32, ExecutionError>, or a panic
ResOk(n) == [kind |-> "ok", cycles |-> n, addr |-> 0]
ResIllegal == [kind |-> "IllegalInstruction", cycles |-> 0, addr |-> 0]
ResOob(address) == [kind |-> "MemoryOutOfBounds", cycles |-> 0, addr |-> address]
ResPanic == [kind |-> "panic", cycles |-> 0, addr |-> 0]
ResNone == [kind |-> "none", cycles |-> 0, addr |-> 0]

Out(c, m, r) == [cpu |-> c, mem |-> m, res |-> r]

\* write_bit(flag, true) when the condition holds, nothing otherwise
SetIf(c, flag, condition) == IF condition THEN write_bit(c, flag, TRUE) ELSE c

execute_add_a_imm8(c, byte) ==
    LET prev_value == read_byte(c, "A")
        c1 == add_byte(c, "A", byte)
        new_value == read_byte(c1, "A")
        bit_3_overflow == overflow_occured_byte(prev_value, byte, new_value, 3)
        bit_7_overflow == overflow_occured_byte(prev_value, byte, new_value, 7)
        c2 == SetIf(c1, "FlagZ", new_value = 0)
        c3 == SetIf(c2, "FlagH", bit_3_overflow)
        c4 == SetIf(c3, "FlagC", bit_7_overflow)
    IN  write_bit(c4, "FlagN", FALSE)

execute_sub_a_imm8(c, byte) ==
    LET prev_value == read_byte(c, "A")
        c1 == sub_byte(c, "A", byte)
        new_value == read_byte(c1, "A")
        bit_4_borrow == borrow_occurred_byte(prev_value, byte, 4)
        borrow == byte > prev_value
        c2 == SetIf(c1, "FlagZ", new_value = 0)
        c3 == SetIf(c2, "FlagH", bit_4_borrow)
        c4 == SetIf(c3, "FlagC", borrow)
    IN  write_bit(c4, "FlagN", TRUE)

execute_cp_a_imm8(c, byte) ==
    LET prev_value == read_byte(c, "A")
        new_value == WrappingSub8(prev_value, byte)
        bit_4_borrow == borrow_occurred_byte(prev_value, byte, 4)
        borrow == byte > prev_value
        c2 == SetIf(c, "FlagZ", new_value = 0)
        c3 == SetIf(c2, "FlagH", bit_4_borrow)
        c4 == SetIf(c3, "FlagC", borrow)
    IN  write_bit(c4, "FlagN", TRUE)

\* the tail shared by OR, XOR and AND: Z if A is 0, then N, H, C
LogicFlags(c1, h) ==
    LET c2 == SetIf(c1, "FlagZ", read_byte(c1, "A") = 0)
        c3 == write_bit(c2, "FlagN", FALSE)
        c4 == write_bit(c3, "FlagH", h)
    IN  write_bit(c4, "FlagC", FALSE)

execute_or_a_imm8(c, byte) ==
    LogicFlags(write_byte(c, "A", BitOr(read_byte(c, "A"), byte)), FALSE)

execute_xor_a_imm8(c, byte) ==
    LogicFlags(write_byte(c, "A", BitXor(read_byte(c, "A"), byte)), FALSE)

execute_and_a_imm8(c, byte) ==
    LogicFlags(write_byte(c, "A", BitAnd(read_byte(c, "A"), byte)), TRUE)

CarryIn(c) == IF read_bit(c, "FlagC") THEN 1 ELSE 0

execute_adc_a_imm8(c, byte) == execute_add_a_imm8(c, WrappingAdd8(byte, CarryIn(c)))

execute_sbc_a_imm8(c, byte) == execute_sub_a_imm8(c, WrappingSub8(byte, CarryIn(c)))

\* The *_a_r8 functions: the operand is the byte at [HL] (2 cycles, the read
\* may fail) or a byte register (1 cycle).
Src8(m, c, r8) ==
    IF r8 = "AddrHL" THEN mem_read_byte(m, read_word(c, "HL"))
    ELSE MemOk(read_byte(c, R8_into(r8)))

Cycles8(r8) == IF r8 = "AddrHL" THEN 2 ELSE 1

execute_add_a_r8(m, c, r8) ==
    LET s == Src8(m, c, r8)
    IN  IF ~s.ok THEN Out(c, m, ResOob(s.addr))
        ELSE Out(execute_add_a_imm8(c, s.v), m, ResOk(Cycles8(r8)))

execute_adc_a_r8(m, c, r8) ==
    LET add_c == CarryIn(c)
        s == Src8(m, c, r8)
    IN  IF ~s.ok THEN Out(c, m, ResOob(s.addr))
        ELSE Out(execute_add_a_imm8(c, WrappingAdd8(s.v, add_c)), m, ResOk(Cycles8(r8)))

execute_sub_a_r8(m, c, r8) ==
    LET s == Src8(m, c, r8)
    IN  IF ~s.ok THEN Out(c, m, ResOob(s.addr))
        ELSE Out(execute_sub_a_imm8(c, s.v), m, ResOk(Cycles8(r8)))

execute_sbc_a_r8(m, c, r8) ==
    LET sub_c == CarryIn(c)
        s == Src8(m, c, r8)
    IN  IF ~s.ok THEN Out(c, m, ResOob(s.addr))
        ELSE Out(execute_sub_a_imm8(c, WrappingSub8(s.v, sub_c)), m, ResOk(Cycles8(r8)))

execute_and_a_r8(m, c, r8) ==
    LET s == Src8(m, c, r8)
    IN  IF ~s.ok THEN Out(c, m, ResOob(s.addr))
        ELSE Out(execute_and_a_imm8(c, s.v), m, ResOk(Cycles8(r8)))

execute_xor_a_r8(m, c, r8) ==
    LET s == Src8(m, c, r8)
    IN  IF ~s.ok THEN Out(c, m, ResOob(s.addr))
        ELSE Out(execute_xor_a_imm8(c, s.v), m, ResOk(Cycles8(r8)))

execute_or_a_r8(m, c, r8) ==
    LET s == Src8(m, c, r8)
    IN  IF ~s.ok THEN Out(c, m, ResOob(s.addr))
        ELSE Out(execute_or_a_imm8(c, s.v), m, ResOk(Cycles8(r8)))

execute_cp_a_r8(m, c, r8) ==
    LET s == Src8(m, c, r8)
    IN  IF ~s.ok THEN Out(c, m, ResOob(s.addr))
        ELSE Out(execute_cp_a_imm8(c, s.v), m, ResOk(Cycles8(r8)))

execute_ld_r8_r8(m, c, dst, src) ==
    IF dst = "AddrHL" /\ src = "AddrHL" THEN Out(c, m, ResIllegal)
    ELSE IF src = "AddrHL" THEN
        (LET rd == mem_read_byte(m, read_word(c, "HL"))
         IN  IF ~rd.ok THEN Out(c, m, ResOob(rd.addr))
             ELSE Out(write_byte(c, R8_into(dst), rd.v), m, ResOk(1)))
    ELSE IF dst = "AddrHL" /\ read_byte_panics(R8_into(dst)) THEN
        \* the byte to store is cpu.read_byte(&dst.clone().into()), a read of HL
        Out(c, m, ResPanic)
    ELSE Out(write_byte(c, R8_into(dst), read_byte(c, R8_into(src))), m, ResOk(1))

execute_add_hl_r16(c, r16) ==
    LET added == read_word(c, R16_into(r16))
        prev_value == read_word(c, "HL")
        c1 == add_word(c, "HL", added)
        new_value == read_word(c1, "HL")
        c2 == write_bit(c1, "FlagN", FALSE)
        bit_11_overflow == overflow_occured_word(prev_value, added, new_value, 11)
        bit_15_overflow == overflow_occured_word(prev_value, added, new_value, 15)
        c3 == SetIf(c2, "FlagH", bit_11_overflow)
    IN  SetIf(c3, "FlagC", bit_15_overflow)

execute_ccf(c) ==
    LET c1 == write_bit(c, "FlagN", FALSE)
        c2 == write_bit(c1, "FlagH", FALSE)
    IN  write_bit(c2, "FlagC", ~read_bit(c2, "FlagC"))

execute_scf(c) ==
    LET c1 == write_bit(c, "FlagN", FALSE)
        c2 == write_bit(c1, "FlagH", FALSE)
    IN  write_bit(c2, "FlagC", TRUE)

execute_cpl(c) ==
    LET c1 == write_byte(c, "A", Not8(read_byte(c, "A")))
        c2 == write_bit(c1, "FlagN", TRUE)
    IN  write_bit(c2, "FlagH", TRUE)

\* DAA: with N clear and (C set or A > 153) the function calls
\* cpu.write_bit(&A, true), which panics
execute_daa(m, c) ==
    IF read_bit(c, "FlagN") THEN
        LET adjustment == (IF read_bit(c, "FlagH") THEN 6 ELSE 0)
                          + (IF read_bit(c, "FlagC") THEN 96 ELSE 0)
            c1 == sub_byte(c, "A", adjustment)
            c2 == write_bit(c1, "FlagZ", read_byte(c1, "A") = 0)
        IN  Out(write_bit(c2, "FlagH", FALSE), m, ResOk(1))
    ELSE
        LET a_value == read_byte(c, "A")
            low == read_bit(c, "FlagH") \/ BitAnd(a_value, 15) > 9
            high == read_bit(c, "FlagC") \/ a_value > 153
            adjustment == IF low THEN 6 ELSE 0
            c1 == add_byte(c, "A", adjustment)
            c2 == write_bit(c1, "FlagZ", read_byte(c1, "A") = 0)
        IN  IF high /\ write_bit_panics("A") THEN Out(c, m, ResPanic)
            ELSE Out(write_bit(c2, "FlagH", FALSE), m, ResOk(1))

\* the flag tail of the four rotates
RotateFlags(c1, carry) ==
    LET c2 == write_bit(c1, "FlagZ", FALSE)
        c3 == write_bit(c2, "FlagN", FALSE)
        c4 == write_bit(c3, "FlagH", FALSE)
    IN  write_bit(c4, "FlagC", carry)

execute_rla(c) ==
    LET value == read_byte(c, "A")
        left_bit == get_bit_of_byte(value, 0)
    IN  RotateFlags(
            write_byte(c, "A", set_bit_of_byte(Shl8(value, 1), 7, read_bit(c, "FlagC"))),
            left_bit)

execute_rra(c) ==
    LET value == read_byte(c, "A")
        right_bit == get_bit_of_byte(value, 7)
    IN  RotateFlags(
            write_byte(c, "A", set_bit_of_byte(Shr(value, 1), 0, read_bit(c, "FlagC"))),
            right_bit)

execute_rlca(c) ==
    LET value == read_byte(c, "A")
        left_bit == get_bit_of_byte(value, 0)
    IN  RotateFlags(write_byte(c, "A", BitOr(Shl8(value, 1), Shr(value, 7))), left_bit)

execute_rrca(c) ==
    LET value == read_byte(c, "A")
        right_bit == get_bit_of_byte(value, 7)
    IN  RotateFlags(write_byte(c, "A", BitOr(Shr(value, 1), Shl8(value, 7))), right_bit)

\* (offset as i8) as i16, then add or subtract its absolute value
execute_jr(c, offset) ==
    LET signed_offset == IF offset >= 128 THEN offset - 256 ELSE offset
    IN  IF signed_offset >= 0 THEN add_word(c, "PC", signed_offset)
        ELSE sub_word(c, "PC", 0 - signed_offset)

\* the flag read is that of Cond::Z, whatever cond is
execute_jr_cond(m, c, cond, offset) ==
    LET condition == cond \in {"Z", "C"}
    IN  IF read_bit(c, Cond_into("Z")) # condition THEN Out(c, m, ResOk(2))
        ELSE Out(execute_jr(c, offset), m, ResOk(3))

\* INC [HL] starts with cpu.read_byte(&Register::HL), which panics
execute_inc_r8(m, c, r8) ==
    IF r8 = "AddrHL" /\ read_byte_panics("HL") THEN Out(c, m, ResPanic)
    ELSE
        LET register == R8_into(r8)
            prev_value == read_byte(c, register)
            c1 == add_byte(c, register, 1)
            new_value == read_byte(c1, register)
            c2 == SetIf(c1, "FlagZ", new_value = 0)
            c3 == SetIf(c2, "FlagH",
                        get_bit_of_byte(prev_value, 4) /\ ~get_bit_of_byte(new_value, 4))
        IN  Out(write_bit(c3, "FlagN", FALSE), m, ResOk(1))

\* DEC [HL] starts with cpu.read_byte(&Register::HL), which panics; DEC r8
\* calls add_byte
execute_dec_r8(m, c, r8) ==
    IF r8 = "AddrHL" /\ read_byte_panics("HL") THEN Out(c, m, ResPanic)
    ELSE
        LET register == R8_into(r8)
            prev_value == read_byte(c, register)
            c1 == add_byte(c, register, 1)
            new_value == read_byte(c1, register)
            c2 == SetIf(c1, "FlagZ", new_value = 0)
            c3 == SetIf(c2, "FlagH",
                        get_bit_of_byte(prev_value, 3) /\ ~get_bit_of_byte(new_value, 3))
        IN  Out(write_bit(c3, "FlagN", TRUE), m, ResOk(1))

execute_inc_dec_r16(m, c, r16, inc) ==
    IF inc THEN Out(add_word(c, R16_into(r16), 1), m, ResOk(2))
    ELSE Out(sub_word(c, R16_into(r16), 1), m, ResOk(2))

handle_r16mem_add_or_decr(c, r16mem) ==
    CASE r16mem = "IncrHL" -> add_word(c, "HL", 1)
      [] r16mem = "DecrHL" -> sub_word(c, "HL", 1)
      [] OTHER -> c

\* a mutant of execute_ld_r16_imm16: the immediate is byte-swapped on the way
execute_ld_r16_imm16_swapped(m, c, insn) ==
    Out(write_word(c, R16_into(insn.r1), endianess_conversion(insn.imm)), m, ResOk(3))

execute_ld_r16_imm16(m, c, insn) ==
    Out(write_word(c, R16_into(insn.r1), insn.imm), m, ResOk(3))

execute_ld_r16mem_a(m, c, insn) ==
    LET w == mem_write_byte(m, read_word(c, R16mem_into(insn.r1)), read_byte(c, "A"))
    IN  IF ~w.ok THEN Out(c, m, ResOob(w.addr))
        ELSE Out(handle_r16mem_add_or_decr(c, insn.r1), w.mem, ResOk(2))

execute_ld_a_r16mem(m, c, insn) ==
    LET rd == mem_read_byte(m, read_word(c, R16mem_into(insn.r1)))
    IN  IF ~rd.ok THEN Out(c, m, ResOob(rd.addr))
        ELSE Out(handle_r16mem_add_or_decr(write_byte(c, "A", rd.v), insn.r1), m, ResOk(2))

execute_ld_addrimm16_sp(m, c, insn) ==
    LET w == mem_write_word(m, insn.imm, read_word(c, "SP"))
    IN  IF ~w.ok THEN Out(c, m, ResOob(w.addr)) ELSE Out(c, w.mem, ResOk(5))

execute_ld_r8_imm8(m, c, insn) ==
    IF insn.r1 = "AddrHL" THEN
        LET w == mem_write_byte(m, read_word(c, "HL"), insn.imm)
        IN  IF ~w.ok THEN Out(c, m, ResOob(w.addr)) ELSE Out(c, w.mem, ResOk(2))
    ELSE Out(write_byte(c, R8_into(insn.r1), insn.imm), m, ResOk(2))

execute_stop == 0

execute_di(c) == disable_interupts(c)

execute_ei(c) == enable_interupts(c)

\* r16stk as a register: BC, DE, HL, AF
R16stk_into(r16stk) == r16stk

\* reads memory at the address held in the register pair; memory is not written
execute_push_r16stk(m, c, r16stk) ==
    LET reg == R16stk_into(r16stk)
        value == mem_read_word(m, read_word(c, reg))
    IN  IF ~value.ok THEN Out(c, m, ResOob(value.addr))
        ELSE Out(sub_word(write_word(c, "SP", endianess_conversion(value.v)), "SP", 2),
                 m, ResOk(3))

execute_pop_r16stk(m, c, r16stk) ==
    LET reg == R16stk_into(r16stk)
        value == mem_read_word(m, read_word(c, "SP"))
    IN  IF ~value.ok THEN Out(c, m, ResOob(value.addr))
        ELSE Out(add_word(write_word(c, reg, endianess_conversion(value.v)), "SP", 2),
                 m, ResOk(3))

\* a mutant of execute_unknown: the unknown instruction is passed over
execute_unknown_skipped(m, c, insn) == Out(c, m, ResOk(1))

\* the Unkown(_) arm of execute
execute_unknown(m, c, insn) == Out(c, m, ResIllegal)

execute(m, c, insn) ==
    CASE insn.tag = "Unkown" -> execute_unknown(m, c, insn)
      [] insn.tag = "NOP" -> Out(c, m, ResOk(1))
      [] insn.tag = "RLCA" -> Out(execute_rlca(c), m, ResOk(1))
      [] insn.tag = "RRCA" -> Out(execute_rrca(c), m, ResOk(1))
      [] insn.tag = "RLA" -> Out(execute_rla(c), m, ResOk(1))
      [] insn.tag = "RRA" -> Out(execute_rra(c), m, ResOk(1))
      [] insn.tag = "DAA" -> execute_daa(m, c)
      [] insn.tag = "CPL" -> Out(execute_cpl(c), m, ResOk(1))
      [] insn.tag = "DI" -> Out(execute_di(c), m, ResOk(1))
      [] insn.tag = "EI" -> Out(execute_ei(c), m, ResOk(1))
      [] insn.tag = "SCF" -> Out(execute_scf(c), m, ResOk(1))
      [] insn.tag = "CCF" -> Out(execute_ccf(c), m, ResOk(1))
      [] insn.tag = "STOP" -> Out(c, m, ResOk(execute_stop))
      [] insn.tag = "HALT" -> Out(c, m, ResPanic)
      [] insn.tag = "LdR16Imm16" -> execute_ld_r16_imm16(m, c, insn)
      [] insn.tag = "LdR16memA" -> execute_ld_r16mem_a(m, c, insn)
      [] insn.tag = "LdAR16mem" -> execute_ld_a_r16mem(m, c, insn)
      [] insn.tag = "LdAddrImm16Sp" -> execute_ld_addrimm16_sp(m, c, insn)
      [] insn.tag = "LdR8Imm8" -> execute_ld_r8_imm8(m, c, insn)
      [] insn.tag = "LdR8R8" -> execute_ld_r8_r8(m, c, insn.r1, insn.r2)
      [] insn.tag = "IncR8" -> execute_inc_r8(m, c, insn.r1)
      [] insn.tag = "IncR16" -> execute_inc_dec_r16(m, c, insn.r1, TRUE)
      [] insn.tag = "DecR8" -> execute_dec_r8(m, c, insn.r1)
      [] insn.tag = "DecR16" -> execute_inc_dec_r16(m, c, insn.r1, FALSE)
      [] insn.tag = "AddHlR16" -> Out(execute_add_hl_r16(c, insn.r1), m, ResOk(2))
      [] insn.tag = "AddAR8" -> execute_add_a_r8(m, c, insn.r1)
      [] insn.tag = "AdcAR8" -> execute_adc_a_r8(m, c, insn.r1)
      [] insn.tag = "SubAR8" -> execute_sub_a_r8(m, c, insn.r1)
      [] insn.tag = "SbcAR8" -> execute_sbc_a_r8(m, c, insn.r1)
      [] insn.tag = "AndAR8" -> execute_and_a_r8(m, c, insn.r1)
      [] insn.tag = "XorAR8" -> execute_xor_a_r8(m, c, insn.r1)
      [] insn.tag = "OrAR8" -> execute_or_a_r8(m, c, insn.r1)
      [] insn.tag = "CpAR8" -> execute_cp_a_r8(m, c, insn.r1)
      [] insn.tag = "AddAImm8" -> Out(execute_add_a_imm8(c, insn.imm), m, ResOk(2))
      [] insn.tag = "AdcAImm8" -> Out(execute_adc_a_imm8(c, insn.imm), m, ResOk(2))
      [] insn.tag = "SubAImm8" -> Out(execute_sub_a_imm8(c, insn.imm), m, ResOk(2))
      [] insn.tag = "SbcAImm8" -> Out(execute_sbc_a_imm8(c, insn.imm), m, ResOk(2))
      [] insn.tag = "AndAImm8" -> Out(execute_and_a_imm8(c, insn.imm), m, ResOk(2))
      [] insn.tag = "XorAImm8" -> Out(execute_xor_a_imm8(c, insn.imm), m, ResOk(2))
      [] insn.tag = "OrAImm8" -> Out(execute_or_a_imm8(c, insn.imm), m, ResOk(2))
      [] insn.tag = "CpAImm8" -> Out(execute_cp_a_imm8(c, insn.imm), m, ResOk(2))
      [] insn.tag = "JrImm8" -> Out(execute_jr(c, insn.imm), m, ResOk(2))
      [] insn.tag = "JrCondImm8" -> execute_jr_cond(m, c, insn.r1, insn.imm)
      [] insn.tag = "PopR16stk" -> execute_pop_r16stk(m, c, insn.r1)
      [] insn.tag = "PushR16stk" -> execute_push_r16stk(m, c, insn.r1)

(***************************************************************************)
(* The state machine.  cpu and mem are the CPU and the MemoryMap; bytes,   *)
(* dec and res are the slice last handed to get_instruction, what it       *)
(* returned and what execute returned; op names the last call and pcpu,    *)
(* pmem hold the CPU and memory as they were when it was made.             *)
(***************************************************************************)
VARIABLES cpu, mem, bytes, dec, res, op, pcpu, pmem, phase, nops, head, ret

vars == << cpu, mem, bytes, dec, res, op, pcpu, pmem, phase, nops, head, ret >>

\* the longest run of calls from CPU::new() that Spec explores
MaxOps == 2

Call(name, reg, val, bit) == [name |-> name, reg |-> reg, val |-> val, bit |-> bit]
NoCall == Call("none", "-", 0, FALSE)

\* values handed to the calls
WordSamples == {0, 255, 256, 4660, 32768, 43981, 65534, 65535}
ByteSamples == {0, 1, 15, 16, 127, 128, 171, 255}
OperandBytes == {0, 18, 52, 128, 254, 255}
Opcodes == 0 .. 255

\* the longest slice handed to get_instruction
MaxSliceLen == 3

RECURSIVE OperandSeqs(_)
OperandSeqs(n) ==
    IF n = 0 THEN {<< >>}
    ELSE OperandSeqs(n - 1)
         \cup {Append(t, x) : t \in {u \in OperandSeqs(n - 1) : Len(u) = n - 1},
                              x \in OperandBytes}

\* the empty slice, and every opcode followed by fewer than MaxSliceLen
\* operand bytes
Slices == {<< >>} \cup {<< o >> \o t : o \in Opcodes, t \in OperandSeqs(MaxSliceLen - 1)}

\* the CPU and memory a single call is made from; each is reached from
\* CPU::new() and MemoryMap::new() by calls of write_word, enable_interupts,
\* refresh_interupt_flag and MemoryMap::write_byte
Starts ==
    { [cpu |-> CPU_new, mem |-> MemoryMap_new],
      [cpu |-> [af |-> 4660, bc |-> 22136, de |-> 39612, hl |-> 49152, sp |-> 65534,
                pc |-> 256, ime |-> FALSE, ime_delay |-> NoneU8],
       mem |-> (0 :> 153) @@ (32768 :> 17) @@ (32769 :> 34) @@ (49152 :> 127)
                 @@ (65534 :> 85) @@ (65535 :> 102)],
      [cpu |-> [af |-> 65535, bc |-> 65535, de |-> 65535, hl |-> 65535, sp |-> 65535,
                pc |-> 65535, ime |-> TRUE, ime_delay |-> NoneU8],
       mem |-> (65535 :> 255) @@ (65534 :> 1)],
      [cpu |-> [af |-> 15088, bc |-> 50688, de |-> 255, hl |-> 32768, sp |-> 4660,
                pc |-> 0, ime |-> FALSE, ime_delay |-> SomeU8(1)],
       mem |-> (32768 :> 198) @@ (255 :> 16) @@ (4660 :> 52) @@ (4661 :> 18)],
      [cpu |-> [af |-> 256, bc |-> 1, de |-> 3856, hl |-> 65534, sp |-> 0,
                pc |-> 65534, ime |-> FALSE, ime_delay |-> NoneU8],
       mem |-> (1 :> 15) @@ (3856 :> 240) @@ (65534 :> 154)],
      [cpu |-> [af |-> 58, bc |-> 198, de |-> 4097, hl |-> 49152, sp |-> 65534,
                pc |-> 256, ime |-> FALSE, ime_delay |-> NoneU8],
       mem |-> (49152 :> 198) @@ (65534 :> 52) @@ (65535 :> 18)],
      [cpu |-> [af |-> 0, bc |-> 4660, de |-> 0, hl |-> 0, sp |-> 65534,
                pc |-> 256, ime |-> FALSE, ime_delay |-> NoneU8],
       mem |-> (4660 :> 205) @@ (4661 :> 171)] }

\* calls made in sequence from CPU::new()
SeqWords == {4660, 65535}
SeqBytes == {0, 171}
SeqSlices ==
    { << 0 >>, << 1, 52, 18 >>, << 49, 254, 255 >>, << 8, 0, 128 >>, << 55 >>,
      << 63 >>, << 62, 255 >>, << 6, 18 >>, << 60 >>, << 128 >>, << 175 >>,
      << 197 >>, << 16 >>, << 16, 0 >> }

InitObs ==
    /\ bytes = << >>
    /\ dec = DecErr("none", 0)
    /\ res = ResNone
    /\ op = NoCall
    /\ pcpu = cpu
    /\ pmem = mem
    /\ phase = "ready"
    /\ nops = 0
    /\ head = 0
    /\ ret = ResNone

Init == cpu = CPU_new /\ mem = MemoryMap_new /\ InitObs

InitOp == (\E s \in Starts : cpu = s.cpu /\ mem = s.mem) /\ InitObs

Ready(k) == phase = "ready" /\ nops < k

\* CPU::write_word
WriteWord(k, S) ==
    /\ Ready(k)
    /\ \E r \in WordRegisters, v \in S :
          /\ cpu' = write_word(cpu, r, v)
          /\ op' = Call("write_word", r, v, FALSE)
    /\ pcpu' = cpu /\ pmem' = mem /\ nops' = nops + 1
    /\ UNCHANGED << mem, bytes, dec, res, phase, head, ret >>

\* CPU::write_byte
WriteByte(k, S) ==
    /\ Ready(k)
    /\ \E r \in ByteRegisters, v \in S :
          /\ cpu' = write_byte(cpu, r, v)
          /\ op' = Call("write_byte", r, v, FALSE)
    /\ pcpu' = cpu /\ pmem' = mem /\ nops' = nops + 1
    /\ UNCHANGED << mem, bytes, dec, res, phase, head, ret >>

\* CPU::write_bit
WriteBit(k) ==
    /\ Ready(k)
    /\ \E f \in BitRegisters, b \in BOOLEAN :
          /\ cpu' = write_bit(cpu, f, b)
          /\ op' = Call("write_bit", f, 0, b)
    /\ pcpu' = cpu /\ pmem' = mem /\ nops' = nops + 1
    /\ UNCHANGED << mem, bytes, dec, res, phase, head, ret >>

\* get_instruction on a slice
Decode(k, S) ==
    /\ Ready(k)
    /\ \E b \in S :
          /\ bytes' = b
          /\ dec' = get_instruction(b)
          /\ phase' = IF get_instruction(b).ok THEN "decoded" ELSE "ready"
    /\ op' = Call("get_instruction", "-", 0, FALSE)
    /\ res' = ResNone
    /\ pcpu' = cpu /\ pmem' = mem /\ nops' = nops + 1
    /\ UNCHANGED << cpu, mem, head, ret >>

\* execute on the instruction just decoded; a panic ends the process
Execute ==
    /\ phase = "decoded"
    /\ LET o == execute(mem, cpu, dec.insn)
       IN  /\ cpu' = o.cpu
           /\ mem' = o.mem
           /\ res' = o.res
           /\ phase' = IF o.res.kind = "panic" THEN "aborted" ELSE "ready"
    /\ op' = Call("execute", "-", 0, FALSE)
    /\ pcpu' = cpu /\ pmem' = mem
    /\ UNCHANGED << bytes, dec, nops, head, ret >>

Next ==
    \/ WriteWord(MaxOps, SeqWords)
    \/ WriteByte(MaxOps, SeqBytes)
    \/ WriteBit(MaxOps)
    \/ Decode(MaxOps, SeqSlices)
    \/ Execute

Spec == Init /\ [][Next]_vars

\* the same, without CPU::write_word: flag writes, byte-register writes and
\* executed instructions only
NextNoWord ==
    \/ WriteByte(MaxOps, SeqBytes)
    \/ WriteBit(MaxOps)
    \/ Decode(MaxOps, SeqSlices)
    \/ Execute

SpecNoWord == Init /\ [][NextNoWord]_vars

\* one call, or one decode and execute, from each register file and memory
NextOp ==
    \/ WriteWord(1, WordSamples)
    \/ WriteByte(1, ByteSamples)
    \/ WriteBit(1)
    \/ Decode(1, Slices)
    \/ Execute

SpecOp == InitOp /\ [][NextOp]_vars

\* the longest run of calls SpecIme explores
MaxImeOps == 10

\* CPU::enable_interupts; from here on op.bit says that no disable_interupts
\* and no other enable_interupts has followed it, and op.val counts the
\* refresh_interupt_flag calls made since
EnableInterupts ==
    /\ Ready(MaxImeOps)
    /\ cpu' = enable_interupts(cpu)
    /\ op' = Call("enable_interupts", "-", 0, TRUE)
    /\ pcpu' = cpu /\ pmem' = mem /\ nops' = nops + 1
    /\ UNCHANGED << mem, bytes, dec, res, phase, head, ret >>

\* CPU::disable_interupts
DisableInterupts ==
    /\ Ready(MaxImeOps)
    /\ cpu' = disable_interupts(cpu)
    /\ op' = Call("disable_interupts", "-", 0, FALSE)
    /\ pcpu' = cpu /\ pmem' = mem /\ nops' = nops + 1
    /\ UNCHANGED << mem, bytes, dec, res, phase, head, ret >>

\* CPU::refresh_interupt_flag; op.reg keeps the name of the last call that
\* was not a refresh
RefreshInteruptFlag ==
    /\ Ready(MaxImeOps)
    /\ cpu' = refresh_interupt_flag(cpu)
    /\ op' = Call("refresh_interupt_flag",
                  IF op.name = "refresh_interupt_flag" THEN op.reg ELSE op.name,
                  op.val + 1, op.bit)
    /\ pcpu' = cpu /\ pmem' = mem /\ nops' = nops + 1
    /\ UNCHANGED << mem, bytes, dec, res, phase, head, ret >>

\* the longest run of memory accesses SpecMem explores
MaxMemOps == 2

\* addresses handed to the accesses: both ends of the array, the first
\* addresses past it, and the top of usize
AddrSamples ==
    { usize_of(0), usize_of(1), usize_of(65534), usize_of(65535), usize_of(65536),
      usize_of(65537), << 0, 0, 32768, 0 >>, << 0, 1, 0, 0 >>,
      << 65535, 65535, 65535, 65534 >>, usize_MAX }

MemAccess(name, address, o) ==
    /\ mem' = o.mem
    /\ res' = [kind |-> o.kind, cycles |-> 0, addr |-> o.addr, v |-> o.v]
    /\ phase' = IF o.kind = "panic" THEN "aborted" ELSE "ready"
    /\ op' = Call(name, "-", address, FALSE)
    /\ pcpu' = cpu /\ pmem' = mem /\ nops' = nops + 1
    /\ UNCHANGED << cpu, bytes, dec, head, ret >>

\* MemoryMap::read_byte
MemReadByte(k) ==
    /\ Ready(k)
    /\ \E a \in AddrSamples : MemAccess("read_byte", a, MemoryMap_read_byte(mem, a))

\* MemoryMap::write_byte
MemWriteByte(k) ==
    /\ Ready(k)
    /\ \E a \in AddrSamples, v \in SeqBytes :
          MemAccess("write_byte", a, MemoryMap_write_byte(mem, a, v))

\* MemoryMap::read_word
MemReadWord(k) ==
    /\ Ready(k)
    /\ \E a \in AddrSamples, b \in Builds :
          MemAccess("read_word", a, MemoryMap_read_word(mem, a, b))

\* MemoryMap::write_word
MemWriteWord(k) ==
    /\ Ready(k)
    /\ \E a \in AddrSamples, v \in SeqWords, b \in Builds :
          MemAccess("write_word", a, MemoryMap_write_word(mem, a, v, b))

NextMem == MemReadByte(MaxMemOps) \/ MemWriteByte(MaxMemOps)
             \/ MemReadWord(MaxMemOps) \/ MemWriteWord(MaxMemOps)

SpecMem == Init /\ [][NextMem]_vars

\* the longest run of calls SpecStack explores
MaxStackOps == 3

\* PUSH and POP of each r16stk, which get_instruction never returns
StackInsns ==
    {Insn(t, r, "-", 0) : t \in {"PushR16stk", "PopR16stk"}, r \in {"BC", "DE", "HL", "AF"}}

\* execute on an instruction value built by the caller; dec holds it
ExecuteDirect(k, S) ==
    /\ Ready(k)
    /\ \E insn \in S :
          LET o == execute(mem, cpu, insn)
          IN  /\ dec' = DecOk(insn)
              /\ cpu' = o.cpu
              /\ mem' = o.mem
              /\ res' = o.res
              /\ phase' = IF o.res.kind = "panic" THEN "aborted" ELSE "ready"
    /\ op' = Call("execute_direct", "-", 0, FALSE)
    /\ bytes' = << >>
    /\ pcpu' = cpu /\ pmem' = mem /\ nops' = nops + 1
    /\ UNCHANGED << head, ret >>

\* DI and EI, which get_instruction never returns
ImeInsns == {Insn("DI", "-", "-", 0), Insn("EI", "-", "-", 0)}

\* the three calls of the interrupt-enable state, and DI and EI executed
NextIme ==
    \/ EnableInterupts
    \/ DisableInterupts
    \/ RefreshInteruptFlag
    \/ ExecuteDirect(MaxImeOps, ImeInsns)

SpecIme == Init /\ [][NextIme]_vars

NextStack == WriteWord(MaxStackOps, {0}) \/ ExecuteDirect(MaxStackOps, StackInsns)

SpecStack == InitOp /\ [][NextStack]_vars

(***************************************************************************)
(* main.rs: the step loop of EmulatorApp.  head is the fetch position, set *)
(* to 0 by main; ret is what step hands back to its caller.  A frame in    *)
(* which the step button is pressed runs next_operation and then step.     *)
(***************************************************************************)
\* the longest run of steps SpecStep explores
MaxSteps == 258

\* disassembler::get_operation: the instruction and its length
get_operation(b) ==
    LET d == get_instruction(b)
    IN  [ok |-> d.ok, dec |-> d, offset |-> IF d.ok THEN get_size(d.insn) ELSE 0]

\* step returns ()
StepUnit == [kind |-> "unit", addr |-> 0, cycles |-> 0]

\* the memory images the loop is started on: the program of main, and others
\* written at address 0 the same way; a zero byte is a NOP
Program(b) == [a \in {i - 1 : i \in {j \in 1 .. Len(b) : b[j] # 0}} |-> b[a + 1]]

Images ==
    { Program(<< 1, 255, 128, 10, 6, 255 >>),
      (256 :> 24) @@ (257 :> 254),
      (256 :> 24) @@ (257 :> 2),
      Program(<< 24, 2, 211, 0, 60 >>),
      Program(<< 211, 60 >>),
      Program(<< 8, 255, 255, 60 >>),
      Program(<< 60, 118 >>),
      Program(<< 251, 0, 0, 60 >>) }

InitStep == cpu = CPU_new /\ mem \in Images /\ InitObs

Step ==
    /\ phase = "ready"
    /\ nops < MaxSteps
    /\ LET next_bytes == mem_read_bytes(mem, head, 3)
           g == get_operation(next_bytes.v)
           o == execute(mem, cpu, g.dec.insn)
       IN  IF ~next_bytes.ok \/ ~g.ok
           THEN /\ phase' = "aborted"
                /\ UNCHANGED << cpu, mem, bytes, dec, res, head, ret >>
           ELSE /\ bytes' = next_bytes.v
                /\ dec' = g.dec
                /\ cpu' = o.cpu
                /\ mem' = o.mem
                /\ res' = o.res
                /\ IF o.res.kind = "panic"
                   THEN phase' = "aborted" /\ UNCHANGED << head, ret >>
                   ELSE /\ phase' = "ready"
                        /\ head' = head + g.offset
                        /\ ret' = StepUnit
    /\ op' = Call("step", "-", head, FALSE)
    /\ pcpu' = cpu /\ pmem' = mem /\ nops' = nops + 1

NextStep == Step

SpecStep == InitStep /\ [][NextStep]_vars

\* The loop near the end of memory.  Over an image whose cells below the
\* fetch position are all 0, every step so far was a NOP: it left the CPU as
\* CPU::new() made it and moved head up by one.  The loop is taken up from
\* such a state; nops counts the steps from there.
EndHeads == 65500 .. 65532

EndImages ==
    { (65534 :> 60),
      (65535 :> 60),
      (65533 :> 1) @@ (65534 :> 52) @@ (65535 :> 18),
      (65532 :> 6) @@ (65533 :> 7) @@ (65534 :> 60) }

InitStepEnd ==
    /\ cpu = CPU_new
    /\ mem \in EndImages
    /\ head \in EndHeads
    /\ bytes = << >>
    /\ dec = DecErr("none", 0)
    /\ res = ResNone
    /\ op = NoCall
    /\ pcpu = cpu
    /\ pmem = mem
    /\ phase = "ready"
    /\ nops = 0
    /\ ret = ResNone

SpecStepEnd == InitStepEnd /\ [][NextStep]_vars

(***************************************************************************)
(* The canonical opcode map of the specification: the encoded length and   *)
(* the instruction of each listed pattern; 0 and "none" for a byte that    *)
(* matches no pattern.                                                     *)
(***************************************************************************)
TableLen(o) ==
    LET block == o \div 64
        low3 == o % 8
        low4 == o % 16
    IN  CASE block = 0 /\ low4 = 1 -> 3
          [] block = 0 /\ o = 8 -> 3
          [] block = 0 /\ low3 = 6 -> 2
          [] block = 0 /\ o \in {16, 24, 32, 40, 48, 56} -> 2
          [] block = 0 /\ low4 # 1 /\ o # 8 /\ low3 # 6
                       /\ o \notin {16, 24, 32, 40, 48, 56} -> 1
          [] block \in {1, 2} -> 1
          [] block = 3 /\ low3 = 6 -> 2
          [] block = 3 /\ low4 \in {1, 5} -> 1
          [] block = 3 /\ o \in {201, 217, 192, 200, 208, 216, 233, 226, 242, 243, 251} -> 1
          [] block = 3 /\ o \in {224, 240} -> 2
          [] block = 3 /\ o \in {195, 194, 202, 210, 218, 234, 250} -> 3
          [] OTHER -> 0

TableTag(o) ==
    LET block == o \div 64
        low3 == o % 8
        low4 == o % 16
        alu == (o \div 8) % 8
    IN  CASE o = 0 -> "NOP"
          [] o = 7 -> "RLCA"
          [] o = 15 -> "RRCA"
          [] o = 23 -> "RLA"
          [] o = 31 -> "RRA"
          [] o = 39 -> "DAA"
          [] o = 47 -> "CPL"
          [] o = 55 -> "SCF"
          [] o = 63 -> "CCF"
          [] o = 16 -> "STOP"
          [] o = 24 -> "JrImm8"
          [] o \in {32, 40, 48, 56} -> "JrCondImm8"
          [] o = 8 -> "LdAddrImm16Sp"
          [] block = 0 /\ low4 = 1 -> "LdR16Imm16"
          [] block = 0 /\ low4 = 2 -> "LdR16memA"
          [] block = 0 /\ low4 = 10 -> "LdAR16mem"
          [] block = 0 /\ low4 = 3 -> "IncR16"
          [] block = 0 /\ low4 = 11 -> "DecR16"
          [] block = 0 /\ low4 = 9 -> "AddHlR16"
          [] block = 0 /\ low3 = 4 -> "IncR8"
          [] block = 0 /\ low3 = 5 -> "DecR8"
          [] block = 0 /\ low3 = 6 -> "LdR8Imm8"
          [] o = 118 -> "HALT"
          [] block = 1 /\ o # 118 -> "LdR8R8"
          [] block = 2 ->
                << "AddAR8", "AdcAR8", "SubAR8", "SbcAR8",
                   "AndAR8", "XorAR8", "OrAR8", "CpAR8" >>[alu + 1]
          [] block = 3 /\ low3 = 6 ->
                << "AddAImm8", "AdcAImm8", "SubAImm8", "SbcAImm8",
                   "AndAImm8", "XorAImm8", "OrAImm8", "CpAImm8" >>[alu + 1]
          [] block = 3 /\ low4 = 1 -> "PopR16stk"
          [] block = 3 /\ low4 = 5 -> "PushR16stk"
          [] o = 201 -> "Ret"
          [] o = 217 -> "Reti"
          [] o \in {192, 200, 208, 216} -> "RetCond"
          [] o = 195 -> "JpImm16"
          [] o \in {194, 202, 210, 218} -> "JpCondImm16"
          [] o = 233 -> "JpHl"
          [] o = 224 -> "LdhAddrImm8A"
          [] o = 240 -> "LdhAAddrImm8"
          [] o = 226 -> "LdhAddrCA"
          [] o = 242 -> "LdhAAddrC"
          [] o = 234 -> "LdAddrImm16A"
          [] o = 250 -> "LdAAddrImm16"
          [] o = 243 -> "DI"
          [] o = 251 -> "EI"
          [] OTHER -> "none"

\* a state in which get_instruction has just returned an instruction
Decoded == op.name = "get_instruction" /\ dec.ok

\* the least number of leading bytes of b that get_instruction decodes
Required(b) ==
    CHOOSE n \in 1 .. Len(b) :
        /\ get_instruction(SubSeq(b, 1, n)).ok
        /\ \A k \in 1 .. (n - 1) : ~get_instruction(SubSeq(b, 1, k)).ok

(***************************************************************************)
(* C1.  For every opcode pattern of the table, the length get_size reports *)
(* for the decoded instruction equals the table's length and the number of *)
(* bytes the decoder needed to decode it; STOP (0x10) reports length 2.    *)
(* Stated for the patterns the decoder recognises: the patterns it returns *)
(* as Unkown are the subject of C2.                                        *)
(***************************************************************************)
C1_SizeIsTableLength ==
    (Decoded /\ TableLen(bytes[1]) > 0 /\ dec.insn.tag # "Unkown") =>
        /\ get_size(dec.insn) = TableLen(bytes[1])
        /\ get_size(dec.insn) = Required(bytes)

(***************************************************************************)
(* C2.  Every opcode pattern of the table decodes to its own instruction   *)
(* variant and never to Unkown; in particular the block-3 patterns POP,    *)
(* PUSH, RET, RETI, RET cond, JP, JP cond, JP HL, LDH, LD [imm16],A,       *)
(* LD A,[imm16], DI and EI.                                                *)
(***************************************************************************)
C2_TableOpcodesDecoded ==
    (Decoded /\ TableLen(bytes[1]) > 0) =>
        /\ dec.insn.tag # "Unkown"
        /\ dec.insn.tag = TableTag(bytes[1])

(***************************************************************************)
(* C3.  A byte that matches no pattern of the table decodes to             *)
(* Unkown(byte), of length 1, and never to a decode error; executing       *)
(* Unkown(byte) returns IllegalInstruction and leaves the registers, the   *)
(* IME state and the memory as they were.                                  *)
(***************************************************************************)
C3_UnknownOpcode ==
    /\ (op.name \in {"get_instruction", "execute"} /\ Len(bytes) >= 1
            /\ TableLen(bytes[1]) = 0) =>
          /\ dec = DecOk(Insn("Unkown", "-", "-", bytes[1]))
          /\ get_size(dec.insn) = 1
    /\ (op.name = "execute" /\ dec.insn.tag = "Unkown") =>
          /\ res = ResIllegal
          /\ cpu = pcpu
          /\ mem = pmem

\* 0xD3 has been decoded and executed from a register file and a memory
\* that are not the initial ones
C3_Witness ==
    /\ op.name = "execute"
    /\ bytes = << 211 >>
    /\ dec.insn = Insn("Unkown", "-", "-", 211)
    /\ res.kind = "IllegalInstruction"
    /\ pcpu.af = 4660 /\ pcpu.ime_delay = NoneU8
    /\ pmem # MemoryMap_new

(***************************************************************************)
(* C4.  For every opcode whose encoded length is L in {2, 3}: a slice of   *)
(* 1 <= n < L bytes starting with it gives MissingOperand(opcode); a slice *)
(* of n >= L bytes gives an instruction, the same whatever follows the     *)
(* first L bytes.                                                          *)
(***************************************************************************)
C4_MissingOperand ==
    (op.name = "get_instruction" /\ Len(bytes) >= 1 /\ TableLen(bytes[1]) \in {2, 3}) =>
        LET L == TableLen(bytes[1])
        IN  IF Len(bytes) < L
            THEN dec = DecErr("MissingOperand", bytes[1])
            ELSE /\ dec.ok
                 /\ dec = get_instruction(SubSeq(bytes, 1, L))
                 /\ \A x \in OperandBytes : get_instruction(Append(bytes, x)) = dec

(***************************************************************************)
(* C5.  For r16 in {BC, DE, HL, SP} and a 16-bit v, the bytes              *)
(* [00yy0001, v mod 256, v div 256] decode to LD r16, v; executing it      *)
(* makes read_word(r16) = v, leaves the other registers and the memory     *)
(* unchanged and returns 3 M-cycles.                                       *)
(***************************************************************************)
C5_R16(o) ==
    CASE o = 1 -> "BC"
      [] o = 17 -> "DE"
      [] o = 33 -> "HL"
      [] o = 49 -> "SP"

C5_Expected(c, r16, v) ==
    CASE r16 = "BC" -> [c EXCEPT !.bc = v]
      [] r16 = "DE" -> [c EXCEPT !.de = v]
      [] r16 = "HL" -> [c EXCEPT !.hl = v]
      [] r16 = "SP" -> [c EXCEPT !.sp = v]

C5_LdR16Imm16 ==
    (op.name \in {"get_instruction", "execute"} /\ Len(bytes) >= 3
            /\ bytes[1] \in {1, 17, 33, 49}) =>
        LET v == bytes[2] + 256 * bytes[3]
            r16 == C5_R16(bytes[1])
        IN  /\ dec = DecOk(Insn("LdR16Imm16", r16, "-", v))
            /\ op.name = "execute" =>
                  /\ res = ResOk(3)
                  /\ read_word(cpu, r16) = v
                  /\ cpu = C5_Expected(pcpu, r16, v)
                  /\ mem = pmem

\* S1: [0x01, 0x34, 0x12] executed where BC held another value
C5_Witness ==
    /\ op.name = "execute"
    /\ bytes = << 1, 52, 18 >>
    /\ pcpu.bc = 22136
    /\ cpu.bc = 4660
    /\ res = ResOk(3)
(***************************************************************************)
(* C6.  After write_word(BC, v), read_byte(B) is the high byte of v and    *)
(* read_byte(C) the low byte; likewise A, D and H are the high halves and  *)
(* E and L the low halves of AF, DE and HL.                                *)
(***************************************************************************)
C6_HalvesOfWord ==
    (op.name = "write_word") =>
        /\ op.reg = "AF" => read_byte(cpu, "A") = op.val \div 256
        /\ op.reg = "BC" => /\ read_byte(cpu, "B") = op.val \div 256
                            /\ read_byte(cpu, "C") = op.val % 256
        /\ op.reg = "DE" => /\ read_byte(cpu, "D") = op.val \div 256
                            /\ read_byte(cpu, "E") = op.val % 256
        /\ op.reg = "HL" => /\ read_byte(cpu, "H") = op.val \div 256
                            /\ read_byte(cpu, "L") = op.val % 256

(***************************************************************************)
(* C7.  After write_byte(r, v), from any CPU state, read_byte(r) is v, and *)
(* the other half of the same word register and every other register are  *)
(* unchanged.                                                              *)
(***************************************************************************)
C7_WordOf(r) ==
    CASE r = "A" -> "AF"
      [] r \in {"B", "C"} -> "BC"
      [] r \in {"D", "E"} -> "DE"
      [] r \in {"H", "L"} -> "HL"

C7_ByteWriteRead ==
    (op.name = "write_byte") =>
        /\ read_byte(cpu, op.reg) = op.val
        /\ \A q \in ByteRegisters \ {op.reg} : read_byte(cpu, q) = read_byte(pcpu, q)
        /\ \A w \in WordRegisters \ {C7_WordOf(op.reg)} : read_word(cpu, w) = read_word(pcpu, w)
        /\ op.reg = "A" => \A f \in BitRegisters : read_bit(cpu, f) = read_bit(pcpu, f)
        /\ cpu.ime = pcpu.ime /\ cpu.ime_delay = pcpu.ime_delay

(***************************************************************************)
(* C8.  After write_bit(f, b), from any CPU state, read_bit(f) is b, and   *)
(* the other three flags and register A read as before the write.         *)
(***************************************************************************)
C8_FlagWriteRead ==
    (op.name = "write_bit") =>
        /\ read_bit(cpu, op.reg) = op.bit
        /\ \A g \in BitRegisters \ {op.reg} : read_bit(cpu, g) = read_bit(pcpu, g)
        /\ read_byte(cpu, "A") = read_byte(pcpu, "A")

(***************************************************************************)
(* C9.  In every state reached from CPU::new() by flag writes,             *)
(* byte-register writes and executed instructions, the low 4 bits of F,    *)
(* the low byte of AF, are zero.                                           *)
(***************************************************************************)
C9_LowNibbleOfF == cpu.af % 16 = 0

(***************************************************************************)
(* C10.  For an address a <= 0xFFFE and SP = s, executing LD [a], SP       *)
(* stores SP little-endian, memory[a] = s mod 256 and                      *)
(* memory[a + 1] = s div 256, leaves every other memory cell and every     *)
(* register unchanged and returns 5 M-cycles.                              *)
(***************************************************************************)
C10_LdAddrImm16Sp ==
    (op.name = "execute" /\ dec.insn.tag = "LdAddrImm16Sp" /\ dec.insn.imm <= 65534) =>
        LET a == dec.insn.imm
        IN  /\ res = ResOk(5)
            /\ MemCell(mem, a) = pcpu.sp % 256
            /\ MemCell(mem, a + 1) = pcpu.sp \div 256
            /\ \A x \in (DOMAIN mem \cup DOMAIN pmem) \ {a, a + 1} :
                  MemCell(mem, x) = MemCell(pmem, x)
            /\ cpu = pcpu
\* the operand b of the 8-bit arithmetic instruction just executed: the
\* immediate, the byte at [HL], or the byte register, as it was before
OperandB ==
    IF dec.insn.r1 = "-" THEN dec.insn.imm
    ELSE IF dec.insn.r1 = "AddrHL" THEN MemCell(pmem, read_word(pcpu, "HL"))
    ELSE read_byte(pcpu, R8_into(dec.insn.r1))

(***************************************************************************)
(* C11.  Executing ADD A,b with A = a, whatever the flags were, leaves     *)
(* A = (a + b) mod 256, C set iff a + b >= 256, H set iff                  *)
(* (a mod 16) + (b mod 16) >= 16, Z set iff (a + b) mod 256 = 0 and N      *)
(* clear; a flag whose condition is false is cleared.                      *)
(***************************************************************************)
C11_AddFlags ==
    (op.name = "execute" /\ dec.insn.tag \in {"AddAImm8", "AddAR8"} /\ res.kind = "ok") =>
        LET a == read_byte(pcpu, "A")
            b == OperandB
        IN  /\ read_byte(cpu, "A") = (a + b) % 256
            /\ read_bit(cpu, "FlagC") = (a + b >= 256)
            /\ read_bit(cpu, "FlagH") = ((a % 16) + (b % 16) >= 16)
            /\ read_bit(cpu, "FlagZ") = ((a + b) % 256 = 0)
            /\ read_bit(cpu, "FlagN") = FALSE

(***************************************************************************)
(* C12.  Executing SUB A,b with A = a, whatever the flags were, leaves     *)
(* A = (a - b) mod 256, C set iff b > a, H set iff (a mod 16) < (b mod 16),*)
(* Z set iff a = b and N set; each of Z, H, C whose condition is false is  *)
(* cleared.                                                                *)
(***************************************************************************)
C12_SubFlags ==
    (op.name = "execute" /\ dec.insn.tag \in {"SubAImm8", "SubAR8"} /\ res.kind = "ok") =>
        LET a == read_byte(pcpu, "A")
            b == OperandB
        IN  /\ read_byte(cpu, "A") = (a - b + 256) % 256
            /\ read_bit(cpu, "FlagC") = (b > a)
            /\ read_bit(cpu, "FlagH") = ((a % 16) < (b % 16))
            /\ read_bit(cpu, "FlagZ") = (a = b)
            /\ read_bit(cpu, "FlagN") = TRUE
\* the 8-bit immediate as a two's-complement offset
SignExtend(e8) == IF e8 >= 128 THEN e8 - 256 ELSE e8

(***************************************************************************)
(* C13.  One step of the step loop on an unconditional JR e8 located at    *)
(* PC = p leaves PC = (p + 2 + sign_extend(e8)) mod 2^16; with p = 0x0100  *)
(* and e8 = 0xFE the PC after the step is 0x0100.                          *)
(***************************************************************************)
C13_JrStep ==
    (op.name = "step" /\ phase = "ready" /\ dec.insn.tag = "JrImm8"
            /\ op.val = pcpu.pc) =>
        cpu.pc = (pcpu.pc + 2 + SignExtend(dec.insn.imm) + 65536) % 65536
(***************************************************************************)
(* C14.  At every step of the step loop the instruction bytes are fetched  *)
(* from the address in the CPU's PC register, initially 0x0100; so after a *)
(* taken jump the next fetch is at the jump target.                        *)
(***************************************************************************)
C14_FetchAtPc ==
    (op.name = "step") =>
        /\ op.val = pcpu.pc
        /\ (phase = "ready" /\ dec.insn.tag = "JrImm8") => head = cpu.pc
(***************************************************************************)
(* C15.  For every r16stk pair with value w and every SP value s, PUSH     *)
(* sets SP = (s - 2) mod 2^16 and stores w little-endian at the new SP,    *)
(* memory[s - 2] = w mod 256 and memory[s - 1] = w div 256; the pushed     *)
(* register is unchanged and the cost is 4 M-cycles.                       *)
(***************************************************************************)
C15_Push ==
    (op.name = "execute_direct" /\ dec.insn.tag = "PushR16stk") =>
        LET w == read_word(pcpu, dec.insn.r1)
            s == pcpu.sp
        IN  /\ res = ResOk(4)
            /\ cpu.sp = (s + 65534) % 65536
            /\ MemCell(mem, (s + 65534) % 65536) = w % 256
            /\ MemCell(mem, (s + 65535) % 65536) = w \div 256
            /\ read_word(cpu, dec.insn.r1) = w
(***************************************************************************)
(* C16.  For every SP value s, POP r16stk loads the pair with memory[s] as *)
(* its low byte and memory[s + 1] as its high byte, then sets              *)
(* SP = (s + 2) mod 2^16, at a cost of 3 M-cycles; so a POP right after a  *)
(* PUSH of w, the pair cleared in between, yields w and restores SP.       *)
(* Stated for s <= 0xFFFE, where both bytes are in memory.                 *)
(***************************************************************************)
C16_Pop ==
    /\ (op.name = "execute_direct" /\ dec.insn.tag = "PopR16stk" /\ pcpu.sp <= 65534) =>
          /\ res = ResOk(3)
          /\ read_word(cpu, dec.insn.r1)
                = MemCell(pmem, pcpu.sp) + 256 * MemCell(pmem, pcpu.sp + 1)
          /\ cpu.sp = (pcpu.sp + 2) % 65536
    /\ (op.name = "execute_direct" /\ dec.insn.tag = "PushR16stk" /\ res.kind = "ok") =>
          LET cleared == write_word(cpu, dec.insn.r1, 0)
              popped == execute(mem, cleared, Insn("PopR16stk", dec.insn.r1, "-", 0))
          IN  /\ read_word(popped.cpu, dec.insn.r1) = read_word(pcpu, dec.insn.r1)
              /\ popped.cpu.sp = pcpu.sp
(***************************************************************************)
(* C17.  After enable_interupts(), with no EI or DI in between, IME is     *)
(* still false after the first refresh_interupt_flag() and becomes true    *)
(* exactly at the second: the pending counter goes 2 -> 1 -> 0 and IME is  *)
(* set on the transition to 0.                                             *)
(***************************************************************************)
C17_EiDelay ==
    (op.name = "refresh_interupt_flag" /\ op.bit) =>
        /\ (op.val = 1 /\ ~pcpu.ime) => ~cpu.ime
        /\ op.val = 2 => cpu.ime
(***************************************************************************)
(* C18.  When execute returns an error, IllegalInstruction or              *)
(* MemoryOutOfBounds, during a step, the step loop hands that same error   *)
(* to its caller; it never discards it and carries on as if the            *)
(* instruction had succeeded.                                              *)
(***************************************************************************)
C18_StepReportsError ==
    (op.name = "step" /\ phase = "ready" /\ res.kind \in {"IllegalInstruction", "MemoryOutOfBounds"}) =>
        /\ ret = res
        /\ head = op.val
(***************************************************************************)
(* C19.  For every instruction the decoder can produce and every register  *)
(* and memory state, execute completes with a cycle count or an            *)
(* ExecutionError value and never aborts: no panic, todo! or failed        *)
(* assertion, also for HALT, DAA, INC/DEC [HL] and LD [HL], r8.            *)
(***************************************************************************)
C19_ExecuteNeverAborts ==
    (op.name = "execute") =>
        /\ res.kind \in {"ok", "IllegalInstruction", "MemoryOutOfBounds"}
        /\ phase # "aborted"

\* C20: a byte read or write succeeds exactly for the addresses 0..65535 and
\* a word read or write exactly for 0..65534; at any other address the call
\* returns MemoryOutOfBounds(address) and leaves memory as it was; no cell
\* outside the 65,536 is ever held.
C20_MemoryBounds ==
    /\ DOMAIN mem \subseteq 0 .. (MemSize - 1)
    /\ op.name \in {"read_byte", "write_byte", "read_word", "write_word"} =>
          LET last == IF op.name \in {"read_byte", "write_byte"}
                      THEN usize_of(65535) ELSE usize_of(65534)
              inside == op.val = last \/ usize_lt(op.val, last)
          IN  /\ inside <=> res.kind = "ok"
              /\ ~inside =>
                    /\ res.kind = "MemoryOutOfBounds"
                    /\ res.addr = op.val
                    /\ mem = pmem
(***************************************************************************)
(* C21.  DEC r8 on a byte register other than [HL] holding v leaves the    *)
(* register = (v - 1) mod 256, Z set iff the result is 0, N set, H set iff *)
(* (v mod 16) = 0, C as it was, and returns 1 M-cycle.                     *)
(***************************************************************************)
C21_DecR8 ==
    (op.name = "execute" /\ dec.insn.tag = "DecR8" /\ dec.insn.r1 # "AddrHL") =>
        LET register == R8_into(dec.insn.r1)
            v == read_byte(pcpu, register)
        IN  /\ res = ResOk(1)
            /\ read_byte(cpu, register) = (v + 255) % 256
            /\ read_bit(cpu, "FlagZ") = ((v + 255) % 256 = 0)
            /\ read_bit(cpu, "FlagN") = TRUE
            /\ read_bit(cpu, "FlagH") = (v % 16 = 0)
            /\ read_bit(cpu, "FlagC") = read_bit(pcpu, "FlagC")
(***************************************************************************)
(* C22.  With A = a, operand b and prior carry c, ADC A,b leaves           *)
(* A = (a + b + c) mod 256, C set iff a + b + c >= 256 and H set iff       *)
(* (a mod 16) + (b mod 16) + c >= 16; SBC A,b leaves                       *)
(* A = (a - b - c) mod 256 and C set iff b + c > a.                        *)
(***************************************************************************)
C22_AdcSbc ==
    (op.name = "execute" /\ res.kind = "ok") =>
        LET a == read_byte(pcpu, "A")
            b == OperandB
            c == IF read_bit(pcpu, "FlagC") THEN 1 ELSE 0
        IN  /\ dec.insn.tag \in {"AdcAImm8", "AdcAR8"} =>
                  /\ read_byte(cpu, "A") = (a + b + c) % 256
                  /\ read_bit(cpu, "FlagC") = (a + b + c >= 256)
                  /\ read_bit(cpu, "FlagH") = ((a % 16) + (b % 16) + c >= 16)
            /\ dec.insn.tag \in {"SbcAImm8", "SbcAR8"} =>
                  /\ read_byte(cpu, "A") = (a - b - c + 512) % 256
                  /\ read_bit(cpu, "FlagC") = (b + c > a)
(***************************************************************************)
(* C23.  ADD HL,r16 with HL = h and r16 = r leaves HL = (h + r) mod 2^16,  *)
(* N clear, H set iff (h mod 4096) + (r mod 4096) >= 4096 and clear        *)
(* otherwise, C set iff h + r >= 65536 and clear otherwise, Z as it was,   *)
(* and returns 2 M-cycles.                                                 *)
(***************************************************************************)
C23_AddHlR16 ==
    (op.name = "execute" /\ dec.insn.tag = "AddHlR16") =>
        LET h == read_word(pcpu, "HL")
            r == read_word(pcpu, R16_into(dec.insn.r1))
        IN  /\ res = ResOk(2)
            /\ read_word(cpu, "HL") = (h + r) % 65536
            /\ read_bit(cpu, "FlagN") = FALSE
            /\ read_bit(cpu, "FlagH") = ((h % 4096) + (r % 4096) >= 4096)
            /\ read_bit(cpu, "FlagC") = (h + r >= 65536)
            /\ read_bit(cpu, "FlagZ") = read_bit(pcpu, "FlagZ")
(***************************************************************************)
(* C24.  JR cond,e8 jumps iff the flag the condition selects has the       *)
(* condition's polarity (NZ: Z clear, Z: Z set, NC: C clear, C: C set).    *)
(* Taken, PC becomes (PC + sign_extend(e8)) mod 2^16 at a cost of 3        *)
(* M-cycles; not taken, PC is unchanged and the cost is 2.                 *)
(***************************************************************************)
C24_JrCond ==
    (op.name = "execute" /\ dec.insn.tag = "JrCondImm8") =>
        LET cond == dec.insn.r1
            taken == read_bit(pcpu, Cond_into(cond)) = (cond \in {"Z", "C"})
        IN  IF taken
            THEN /\ res = ResOk(3)
                 /\ cpu.pc = (pcpu.pc + SignExtend(dec.insn.imm) + 65536) % 65536
            ELSE /\ res = ResOk(2)
                 /\ cpu.pc = pcpu.pc
\* HL after an access through the selector: one more for HL+, one less for
\* HL-, as it was for BC and DE
C25_HlAfter(r16mem, hl) ==
    CASE r16mem = "IncrHL" -> (hl + 1) % 65536
      [] r16mem = "DecrHL" -> (hl + 65535) % 65536
      [] OTHER -> hl

(***************************************************************************)
(* C25.  LD [r16mem],A stores A at the address the selected register held  *)
(* before the instruction and LD A,[r16mem] loads A from that address;     *)
(* afterwards HL is (HL + 1) mod 2^16 for HL+ and (HL - 1) mod 2^16 for    *)
(* HL-, BC, DE and SP are as they were, and the cost is 2 M-cycles.        *)
(***************************************************************************)
C25_LdR16mem ==
    (op.name = "execute" /\ dec.insn.tag \in {"LdR16memA", "LdAR16mem"}) =>
        LET address == read_word(pcpu, R16mem_into(dec.insn.r1))
        IN  /\ res = ResOk(2)
            /\ dec.insn.tag = "LdR16memA" => MemCell(mem, address) = read_byte(pcpu, "A")
            /\ dec.insn.tag = "LdAR16mem" => read_byte(cpu, "A") = MemCell(pmem, address)
            /\ cpu.hl = C25_HlAfter(dec.insn.r1, pcpu.hl)
            /\ cpu.bc = pcpu.bc /\ cpu.de = pcpu.de /\ cpu.sp = pcpu.sp
(***************************************************************************)
(* C26.  RLA and RRA rotate the nine bits formed by C and A.  RLA leaves   *)
(* A = ((A << 1) mod 256) + old C and C = old bit 7 of A; RRA leaves       *)
(* A = (A >> 1) + 128 * old C and C = old bit 0 of A; both clear Z, N and  *)
(* H and cost 1 M-cycle (so nine in a row restore A and C).                *)
(***************************************************************************)
C26_RotateThroughCarry ==
    (op.name = "execute" /\ dec.insn.tag \in {"RLA", "RRA"}) =>
        LET a == read_byte(pcpu, "A")
            c == IF read_bit(pcpu, "FlagC") THEN 1 ELSE 0
        IN  /\ res = ResOk(1)
            /\ dec.insn.tag = "RLA" =>
                  /\ read_byte(cpu, "A") = ((a * 2) % 256) + c
                  /\ read_bit(cpu, "FlagC") = (a >= 128)
            /\ dec.insn.tag = "RRA" =>
                  /\ read_byte(cpu, "A") = (a \div 2) + 128 * c
                  /\ read_bit(cpu, "FlagC") = (a % 2 = 1)
            /\ ~read_bit(cpu, "FlagZ") /\ ~read_bit(cpu, "FlagN") /\ ~read_bit(cpu, "FlagH")
(***************************************************************************)
(* C27.  DAA adjusts A.  With N clear it adds 0x06 if H is set or          *)
(* (A mod 16) > 9, and adds 0x60 and sets C if C is set or A > 0x99; with  *)
(* N set it subtracts 0x06 if H is set and 0x60 if C is set.  Afterwards Z *)
(* is set iff A = 0 and H is clear.                                        *)
(***************************************************************************)
C27_Daa ==
    (op.name = "execute" /\ dec.insn.tag = "DAA") =>
        LET a == read_byte(pcpu, "A")
            n == read_bit(pcpu, "FlagN")
            h == read_bit(pcpu, "FlagH")
            c == read_bit(pcpu, "FlagC")
            low == IF n THEN h ELSE h \/ a % 16 > 9
            high == IF n THEN c ELSE c \/ a > 153
            adjustment == (IF low THEN 6 ELSE 0) + (IF high THEN 96 ELSE 0)
            adjusted == IF n THEN (a - adjustment + 256) % 256 ELSE (a + adjustment) % 256
        IN  /\ res.kind = "ok"
            /\ read_byte(cpu, "A") = adjusted
            /\ (~n /\ high) => read_bit(cpu, "FlagC")
            /\ read_bit(cpu, "FlagZ") = (adjusted = 0)
            /\ ~read_bit(cpu, "FlagH")
\* the last call that was not a refresh_interupt_flag was disable_interupts,
\* directly or through an executed DI
C28_DiLast ==
    LET last == IF op.name = "refresh_interupt_flag" THEN op.reg ELSE op.name
    IN  \/ last = "disable_interupts"
        \/ last = "execute_direct" /\ dec.insn.tag = "DI"

(***************************************************************************)
(* C28.  After disable_interupts(), or an executed DI, IME is false and    *)
(* the pending counter is cleared, and they stay so over any number of     *)
(* refresh_interupt_flag() calls until the next EI; so an EI whose delay   *)
(* has not expired is cancelled by a DI and never enables interrupts.      *)
(***************************************************************************)
C28_DiHolds == C28_DiLast => (~cpu.ime /\ cpu.ime_delay = NoneU8)

\* a DI after five earlier calls, then three refreshes
C28_Witness ==
    /\ op.name = "refresh_interupt_flag" /\ op.val = 3 /\ C28_DiLast
    /\ nops >= 6
    /\ ~cpu.ime
\* the loop started at from fetches at q: the fetch position advances by the
\* length of each instruction
RECURSIVE C29_Fetches(_, _, _)
C29_Fetches(m, from, q) ==
    IF from >= q THEN from = q
    ELSE LET g == get_operation(mem_read_bytes(m, from, 3).v)
         IN  g.ok /\ C29_Fetches(m, from + g.offset, q)

(***************************************************************************)
(* C29.  The step loop calls refresh_interupt_flag() after every executed  *)
(* instruction, so once EI (0xFB) has been stepped and the instruction     *)
(* after it, neither DI nor EI, has been stepped too, IME is true.         *)
(***************************************************************************)
C29_EiThenStep ==
    (/\ op.name = "step" /\ phase = "ready"
     /\ op.val >= 1
     /\ MemCell(pmem, op.val - 1) = 251
     /\ C29_Fetches(pmem, 0, op.val - 1)
     /\ bytes[1] \notin {243, 251}) =>
        cpu.ime
(***************************************************************************)
(* C30.  The fetch position of the step loop is a 16-bit value that wraps  *)
(* modulo 2^16: after any number of steps it is within 0..65535, and the   *)
(* fetch never fails on memory bounds, so an instruction at 0xFFFE or      *)
(* 0xFFFF is fetched and stepped.                                          *)
(***************************************************************************)
C30_FetchWraps ==
    /\ head \in 0 .. 65535
    /\ ~(phase = "aborted" /\ ~mem_read_bytes(mem, head, 3).ok)
====
